---- MODULE Spec2Model ----
(***************************************************************************)
(* pgdatadiff: comparison of the data and the sequences of two PostgreSQL  *)
(* databases (src/pgdatadiff/pgdatadiff.py, src/pgdatadiff/main.py).       *)
(*                                                                         *)
(* Python's None / an SQL NULL scalar is the empty tuple <<>>, a present   *)
(* value v is the one-element tuple <<v>>.                                 *)
(***************************************************************************)
EXTENDS Integers, Sequences, FiniteSets, TLC

\* ------------------------------------------------------------------ bounds
\* Primary keys of the modelled tables are drawn from 1..MaxKey.
MaxKey == 3
\* chunk_size is drawn from 1..MaxChunk.
MaxChunk == 3
\* Values of the non-key column.
Vals == {0, 1}

\* ------------------------------------------------------------ Python values
None == <<>>
Some(v) == <<v>>
Val(o) == o[1]

Min(a, b) == IF a <= b THEN a ELSE b

\* --------------------------------------------------------- database content
\* Every modelled table has the columns id and c1 (in this order).
Columns == <<"id", "c1">>

Rows == [id : 1..MaxKey, c1 : Vals]

\* The row sets in which id is unique.
RowSets == {rs \in SUBSET Rows : \A r, s \in rs : r.id = s.id => r = s}

\* ---------------------------------------------------------------- SQL model
\* SELECT count(*): Query.count()
Count(db, tablename) == Cardinality(db.tables[tablename].rows)

\* The ids of a row set, ascending: ORDER BY pk ASC
RECURSIVE Ascending(_)
Ascending(ids) ==
    IF ids = {} THEN <<>>
    ELSE LET m == CHOOSE x \in ids : \A y \in ids : x <= y
         IN  <<m>> \o Ascending(ids \ {m})

RowOf(rows, k) == CHOOSE r \in rows : r.id = k

\* WHERE pk >= :cursor ORDER BY pk ASC LIMIT :row_limit, as the list of ids
WindowAsc(rows, cursor, row_limit) ==
    LET ids == Ascending({r.id : r \in {x \in rows : x.id >= cursor}})
    IN  SubSeq(ids, 1, Min(row_limit, Len(ids)))

Window(rows, cursor, row_limit) == WindowAsc(rows, cursor, row_limit)

\* Mutant of FirstPkScalar: the key of the last row (ORDER BY pk DESC).
FirstPkScalar_Last(rows) ==
    IF rows = {} THEN None
    ELSE Some(CHOOSE m \in {r.id : r \in rows} : \A r \in rows : r.id <= m)

\* SELECT pk FROM t ORDER BY pk LIMIT 1, .scalar(): None on no row
FirstPkScalar(rows) ==
    LET ids == Ascending({r.id : r \in rows})
    IN  IF ids = <<>> THEN None ELSE Some(ids[1])

SQL_QUERY_FIRST_PK(db, tablename) == FirstPkScalar(db.tables[tablename].rows)

\* SELECT pk FROM (window) s ORDER BY pk DESC LIMIT 1, .scalar()
CursorOfWindow(w) == IF w = <<>> THEN None ELSE Some(w[Len(w)])

SQL_QUERY_CURSOR(db, tablename, cursor, row_limit) ==
    CursorOfWindow(Window(db.tables[tablename].rows, cursor, row_limit))

\* (columns)::varchar of one row: the values of the selected columns, in order
RowText(r, columns) == [i \in 1..Len(columns) |-> r[columns[i]]]

\* md5 is modelled as injective (collisions are not modelled): a digest is the
\* tagged text it was computed from.
md5(text) == <<"md5", text>>

\* array_agg over the window, NULL (None) on an empty window; md5(NULL) is NULL
ArrayAgg(rows, w, columns) ==
    [i \in 1..Len(w) |-> md5(RowText(RowOf(rows, w[i]), columns))]

HashOfWindow(rows, w, columns) ==
    IF w = <<>> THEN None ELSE Some(md5(ArrayAgg(rows, w, columns)))

SQL_TEMPLATE_HASH(db, tablename, columns, cursor, row_limit) ==
    HashOfWindow(db.tables[tablename].rows,
                 Window(db.tables[tablename].rows, cursor, row_limit), columns)

\* Mutant of JoinPk: a table without a primary key is keyed by its id column.
JoinPk_FallsBackToId(cols) == IF cols = <<>> THEN "id" ELSE cols[1]

\* ",".join(constrained_columns), for keys of at most one column
JoinPk(cols) == IF cols = <<>> THEN "" ELSE cols[1]

\* Mutant of Filter: the test is inverted (x not in columns).
RECURSIVE Filter_Inverted(_, _)
Filter_Inverted(cc, columns) ==
    IF cc = <<>> THEN <<>>
    ELSE (IF \E i \in 1..Len(columns) : columns[i] = cc[1]
          THEN <<>> ELSE <<cc[1]>>) \o Filter_Inverted(Tail(cc), columns)

\* Mutant of Filter: nothing is filtered out.
Filter_KeepsAll(cc, columns) == cc

\* [x for x in self.check_columns if x in columns]
RECURSIVE Filter(_, _)
Filter(cc, columns) ==
    IF cc = <<>> THEN <<>>
    ELSE (IF \E i \in 1..Len(columns) : columns[i] = cc[1]
          THEN <<cc[1]>> ELSE <<>>) \o Filter(Tail(cc), columns)

\* Lines 93-96: the digest's columns
HashColumns(pk, cc) == IF cc # <<>> THEN <<pk>> \o cc ELSE Columns

\* ------------------------------------------------------------------- state
VARIABLES
    firstdb, seconddb,           \* the databases: [tables : name -> table, sequences : name -> last_value]
    firstsession, secondsession, \* transaction state of the two sessions: "ok" or "aborted"
    arguments,                   \* docopt's arguments of main
    chunk_size, count_only, check_columns,   \* the DBDiff fields
    pc,                          \* the statement the program is at
    caller,                      \* who called the unit's comparison: "api", or the phase
    unit,                        \* tablename / seq_name of the running comparison
    pk, cursor, prev_cursor,     \* locals of diff_table_data
    firstvalue, secondvalue,     \* locals of diff_sequence
    ret,                         \* the (result, message) a comparison returned, or None
    raised,                      \* the exception that escaped, or None
    queries,                     \* every query issued so far, in order
    units, idx, failures,        \* locals of a phase: sorted unit list, position, counter
    analysed,                    \* the units the phases handed to the engines, in order
    reported,                    \* what the phases reported per unit (the spinner), in order
    phase_rc,                    \* what the phases returned: [tables, sequences]
    exit_code                    \* what main returned, or None

dbvars   == <<firstdb, seconddb>>
selfvars == <<chunk_size, count_only, check_columns>>
tblvars  == <<pk, cursor, prev_cursor>>
seqvars  == <<firstvalue, secondvalue>>
loopvars == <<units, idx, failures, analysed, reported, phase_rc, exit_code>>
vars == <<firstdb, seconddb, firstsession, secondsession, arguments,
          chunk_size, count_only, check_columns, pc, caller, unit,
          pk, cursor, prev_cursor, firstvalue, secondvalue, ret, raised,
          queries, units, idx, failures, analysed, reported, phase_rc,
          exit_code>>

\* A query as logged: the session it went to, its kind, its :cursor parameter
Query(db, kind, c) == [db |-> db, kind |-> kind, cursor |-> c]

\* A query with the bind parameters of lines 108-123: cursor and row_limit
ChunkQuery(db, kind, c, row_limit) ==
    [db |-> db, kind |-> kind, cursor |-> c, row_limit |-> row_limit]

\* A comparison's return value (result, message); args are the values the
\* message embeds.
Result(result, message, args) ==
    [result |-> result, message |-> message, args |-> args]

\* ------------------------------------------------- DBDiff.diff_table_data
\* return from the comparison
Return(r) ==
    /\ ret' = Some(r)
    /\ pc' = "returned"
    /\ UNCHANGED raised

\* an exception leaves the comparison
Raise(e) ==
    /\ raised' = Some(e)
    /\ pc' = "raised"
    /\ UNCHANGED ret

TableExists(db, tablename) == tablename \in DOMAIN db.tables

\* Lines 45-51, 69-70: reflect the table from both databases
Autoload ==
    /\ pc = "autoload"
    /\ IF ~TableExists(firstdb, unit)
       THEN /\ queries' = queries \o <<Query("first", "reflect", None)>>
            /\ Return(Result("False", "table is missing", <<>>))
       ELSE /\ queries' = queries \o <<Query("first", "reflect", None),
                                       Query("second", "reflect", None)>>
            /\ IF ~TableExists(seconddb, unit)
               THEN Return(Result("False", "table is missing", <<>>))
               ELSE /\ pc' = "count"
                    /\ UNCHANGED <<ret, raised>>
    /\ UNCHANGED <<dbvars, firstsession, secondsession, arguments, selfvars,
                   caller, unit, tblvars, seqvars, loopvars>>

\* Mutant of CountResult: count_only is honoured before the tables are found
\* empty.
CountResult_CountOnlyFirst(a, b, only) ==
    IF a # b THEN Some(Result("False", "counts are different", <<a, b>>))
    ELSE IF only = TRUE THEN Some(Result("True", "Counts are the same", <<>>))
    ELSE IF a = 0 THEN Some(Result("None", "tables are empty", <<>>))
    ELSE None

\* Mutant of CountResult: count_only is honoured before the counts are
\* compared.
CountResult_CountOnlyBeforeCounts(a, b, only) ==
    IF only = TRUE THEN Some(Result("True", "Counts are the same", <<>>))
    ELSE IF a # b THEN Some(Result("False", "counts are different", <<a, b>>))
    ELSE IF a = 0 THEN Some(Result("None", "tables are empty", <<>>))
    ELSE None

\* The result of lines 52-58, None when the comparison goes on
CountResult(a, b, only) ==
    IF a # b THEN Some(Result("False", "counts are different", <<a, b>>))
    ELSE IF a = 0 THEN Some(Result("None", "tables are empty", <<>>))
    ELSE IF only = TRUE THEN Some(Result("True", "Counts are the same", <<>>))
    ELSE None

\* The count queries of lines 52-55, in the order they are issued
CountQueries(a, b) ==
    <<Query("first", "count", None), Query("second", "count", None)>> \o
    (IF a # b
     THEN <<Query("first", "count", None), Query("second", "count", None)>>
     ELSE <<Query("first", "count", None)>>)

\* Lines 52-58
CountCheck ==
    /\ pc = "count"
    /\ LET a == Count(firstdb, unit)
           b == Count(seconddb, unit)
           r == CountResult(a, b, count_only)
       IN  /\ queries' = queries \o CountQueries(a, b)
           /\ IF r # None THEN Return(Val(r))
              ELSE /\ pc' = "keys"
                   /\ UNCHANGED <<ret, raised>>
    /\ UNCHANGED <<dbvars, firstsession, secondsession, arguments, selfvars,
                   caller, unit, tblvars, seqvars, loopvars>>

\* Lines 59-67: the primary key and the checked columns, from the first
\* database's inspector. Iterating check_columns = None raises TypeError.
KeyColumnCheck ==
    /\ pc = "keys"
    /\ LET p == JoinPk(firstdb.tables[unit].pk)
       IN  /\ pk' = p
           /\ IF p = ""
              THEN /\ queries' = queries \o <<Query("first", "get_pk_constraint", None)>>
                   /\ Return(Result("None", "no primary key(s) on this table", <<>>))
              ELSE /\ queries' = queries \o <<Query("first", "get_pk_constraint", None),
                                              Query("first", "get_columns", None)>>
                   /\ IF check_columns = None
                      THEN Raise("TypeError")
                      ELSE IF Len(Filter(Val(check_columns), Columns))
                                # Len(Val(check_columns))
                      THEN Return(Result("None", "missing checked columns", <<>>))
                      ELSE /\ pc' = "first_pk"
                           /\ UNCHANGED <<ret, raised>>
    /\ UNCHANGED <<dbvars, firstsession, secondsession, arguments, selfvars,
                   caller, unit, cursor, prev_cursor, seqvars, loopvars>>

\* Lines 72-79, and the first test of the while of line 107
FirstPk ==
    /\ pc = "first_pk"
    /\ LET c == SQL_QUERY_FIRST_PK(firstdb, unit)
       IN  /\ queries' = queries \o <<Query("first", "first_pk", None),
                                       Query("second", "first_pk", None)>>
           /\ prev_cursor' = None
           /\ cursor' = c
           /\ IF c # SQL_QUERY_FIRST_PK(seconddb, unit)
              THEN Return(Result("False", "first primary keys are different", <<>>))
              ELSE IF None # c
              THEN /\ pc' = "hash"
                   /\ UNCHANGED <<ret, raised>>
              ELSE Return(Result("True", "data is identical.", <<>>))
    /\ UNCHANGED <<dbvars, firstsession, secondsession, arguments, selfvars,
                   caller, unit, pk, seqvars, loopvars>>

\* Mutant of HashCompare: the two digests are not compared, the loop goes on.
HashCompare_NoComparison ==
    /\ pc = "hash"
    /\ queries' = queries \o
          <<ChunkQuery("first", "hash", cursor, chunk_size),
            ChunkQuery("second", "hash", cursor, chunk_size)>>
    /\ pc' = "next_cursor"
    /\ UNCHANGED <<ret, raised>>
    /\ UNCHANGED <<dbvars, firstsession, secondsession, arguments, selfvars,
                   caller, unit, tblvars, seqvars, loopvars>>

\* Lines 108-118: the digests of the chunk at cursor, first then second
HashCompare ==
    /\ pc = "hash"
    /\ LET columns == HashColumns(pk, Val(check_columns))
           firstresult == SQL_TEMPLATE_HASH(firstdb, unit, columns,
                                            Val(cursor), chunk_size)
           secondresult == SQL_TEMPLATE_HASH(seconddb, unit, columns,
                                             Val(cursor), chunk_size)
       IN  /\ queries' = queries \o
                  <<ChunkQuery("first", "hash", cursor, chunk_size),
                    ChunkQuery("second", "hash", cursor, chunk_size)>>
           /\ IF firstresult # secondresult
              THEN Return(Result("False", "data is different - start_cursor",
                                 <<Val(cursor), chunk_size>>))
              ELSE /\ pc' = "next_cursor"
                   /\ UNCHANGED <<ret, raised>>
    /\ UNCHANGED <<dbvars, firstsession, secondsession, arguments, selfvars,
                   caller, unit, tblvars, seqvars, loopvars>>

\* Mutant of NextCursor: the while test is dropped, the loop always goes on.
NextCursor_NeverStops ==
    /\ pc = "next_cursor"
    /\ LET c == SQL_QUERY_CURSOR(firstdb, unit, Val(cursor), chunk_size)
       IN  /\ queries' = queries \o <<ChunkQuery("first", "cursor", cursor, chunk_size)>>
           /\ prev_cursor' = cursor
           /\ cursor' = c
           /\ pc' = "hash"
           /\ UNCHANGED <<ret, raised>>
    /\ UNCHANGED <<dbvars, firstsession, secondsession, arguments, selfvars,
                   caller, unit, pk, seqvars, loopvars>>

\* Lines 119-123, then the while test of line 107 and the return of line 124
NextCursor ==
    /\ pc = "next_cursor"
    /\ LET c == SQL_QUERY_CURSOR(firstdb, unit, Val(cursor), chunk_size)
       IN  /\ queries' = queries \o <<ChunkQuery("first", "cursor", cursor, chunk_size)>>
           /\ prev_cursor' = cursor
           /\ cursor' = c
           /\ IF cursor # c
              THEN /\ pc' = "hash"
                   /\ UNCHANGED <<ret, raised>>
              ELSE Return(Result("True", "data is identical.", <<>>))
    /\ UNCHANGED <<dbvars, firstsession, secondsession, arguments, selfvars,
                   caller, unit, pk, seqvars, loopvars>>

\* ---------------------------------------------------- DBDiff.diff_sequence
SequenceExists(db, seq_name) == seq_name \in DOMAIN db.sequences

\* SELECT last_value FROM seq_name, fetchone()[0]
GET_SEQUENCES_VALUE_SQL(db, seq_name) == db.sequences[seq_name]

\* Lines 135-142: the two reads inside the try. A read of a relation that
\* does not exist fails with ProgrammingError and leaves the session's
\* transaction aborted; a read on an aborted session fails with InternalError,
\* which the except clause does not catch.
SeqRead ==
    /\ pc = "seq_read"
    /\ IF firstsession = "aborted"
       THEN /\ queries' = queries \o <<Query("first", "last_value", None)>>
            /\ Raise("InternalError")
            /\ UNCHANGED <<firstsession, secondsession, seqvars>>
       ELSE IF ~SequenceExists(firstdb, unit)
       THEN /\ queries' = queries \o <<Query("first", "last_value", None)>>
            /\ firstsession' = "aborted"
            /\ pc' = "seq_except"
            /\ UNCHANGED <<secondsession, seqvars, ret, raised>>
       ELSE /\ queries' = queries \o <<Query("first", "last_value", None),
                                       Query("second", "last_value", None)>>
            /\ firstvalue' = Some(GET_SEQUENCES_VALUE_SQL(firstdb, unit))
            /\ IF secondsession = "aborted"
               THEN /\ Raise("InternalError")
                    /\ UNCHANGED <<firstsession, secondsession, secondvalue>>
               ELSE IF ~SequenceExists(seconddb, unit)
               THEN /\ secondsession' = "aborted"
                    /\ pc' = "seq_except"
                    /\ UNCHANGED <<firstsession, secondvalue, ret, raised>>
               ELSE /\ secondvalue' = Some(GET_SEQUENCES_VALUE_SQL(seconddb, unit))
                    /\ pc' = "seq_compare"
                    /\ UNCHANGED <<firstsession, secondsession, ret, raised>>
    /\ UNCHANGED <<dbvars, arguments, selfvars, caller, unit, tblvars, loopvars>>

\* Mutant of Rollback: the session is left as it was.
Rollback_LeavesAborted(session) == session

\* Session.rollback()
Rollback(session) == "ok"

\* Lines 142-146: except ProgrammingError
SeqExcept ==
    /\ pc = "seq_except"
    /\ firstsession' = Rollback(firstsession)
    /\ secondsession' = Rollback(secondsession)
    /\ Return(Result("False", "sequence doesnt exist in second database.", <<>>))
    /\ UNCHANGED <<dbvars, arguments, selfvars, caller, unit, tblvars, seqvars,
                   queries, loopvars>>

\* Mutant of SequenceResult: the two comparisons are swapped.
SequenceResult_Swapped(a, b) ==
    IF a > b THEN Result("None", "first sequence is less than the second", <<a, b>>)
    ELSE IF a < b
    THEN Result("False", "first sequence is greater than the second", <<a, b>>)
    ELSE Result("True", "sequences are identical-", <<a>>)

\* Lines 147-153
SequenceResult(a, b) ==
    IF a < b THEN Result("None", "first sequence is less than the second", <<a, b>>)
    ELSE IF a > b
    THEN Result("False", "first sequence is greater than the second", <<a, b>>)
    ELSE Result("True", "sequences are identical-", <<a>>)

SeqCompare ==
    /\ pc = "seq_compare"
    /\ Return(SequenceResult(Val(firstvalue), Val(secondvalue)))
    /\ UNCHANGED <<dbvars, firstsession, secondsession, arguments, selfvars,
                   caller, unit, tblvars, seqvars, queries, loopvars>>

\* ------------------------------------------------------- failing queries
\* The queries a step issues, in order, when none of them fails
StepQueries ==
    CASE pc = "count" ->
             CountQueries(Count(firstdb, unit), Count(seconddb, unit))
      [] pc = "first_pk" ->
             <<Query("first", "first_pk", None), Query("second", "first_pk", None)>>
      [] pc = "hash" ->
             <<ChunkQuery("first", "hash", cursor, chunk_size),
               ChunkQuery("second", "hash", cursor, chunk_size)>>
      [] pc = "next_cursor" -> <<ChunkQuery("first", "cursor", cursor, chunk_size)>>
      [] pc = "seq_read" ->
             <<Query("first", "last_value", None), Query("second", "last_value", None)>>
      [] OTHER -> <<>>

\* The queries issued up to and including the first one sent to db
UpToFirst(qs, db) ==
    LET n == CHOOSE i \in 1..Len(qs) :
                 qs[i].db = db /\ \A j \in 1..(i - 1) : qs[j].db # db
    IN  SubSeq(qs, 1, n)

\* Session.execute fails for a reason other than a missing relation (the
\* connection is lost, the statement is refused): the step's first query to
\* db raises an sqlalchemy OperationalError. diff_table_data catches
\* NoSuchTableError only, diff_sequence ProgrammingError only.
QueryError ==
    /\ pc \in {"count", "first_pk", "hash", "next_cursor", "seq_read"}
    /\ \E db \in {"first", "second"} :
          /\ \E i \in 1..Len(StepQueries) : StepQueries[i].db = db
          /\ queries' = queries \o UpToFirst(StepQueries, db)
    /\ Raise("OperationalError")
    /\ UNCHANGED <<dbvars, firstsession, secondsession, arguments, selfvars,
                   caller, unit, tblvars, seqvars, loopvars>>

\* ------------------------------------------------------------ the phases
\* sorted(): the names of the catalogs, in lexicographic order
Lexicographic == <<"a", "b", "r", "s", "t">>

InSeq(x, sq) == \E i \in 1..Len(sq) : sq[i] = x

RECURSIVE SortedFrom(_, _)
SortedFrom(names, order) ==
    IF order = <<>> THEN <<>>
    ELSE (IF Head(order) \in names THEN <<Head(order)>> ELSE <<>>)
         \o SortedFrom(names, Tail(order))

sorted(names) == SortedFrom(names, Lexicographic)

\* Mutant of get_table_names: the tables of both catalogs.
get_table_names_BothCatalogs(db) == DOMAIN firstdb.tables \cup DOMAIN seconddb.tables

\* inspector.get_table_names(schema="public") of the first database
get_table_names(db) == DOMAIN db.tables

\* Lines 126-130: the sequences of the first database
get_all_sequences(db) == DOMAIN db.sequences

\* Lines 173-175, 198-200
PhaseResult(f) == IF f > 0 THEN 1 ELSE 0

\* Mutant of CountFailure: a warning counts as a failure.
CountFailure_CountsWarnings(f, result) ==
    IF result = "True" THEN f ELSE f + 1

\* Lines 165-171, 190-196: the failure counter after a unit's result
CountFailure(f, result) ==
    IF result = "True" THEN f
    ELSE IF result = "None" THEN f
    ELSE f + 1

\* Lines 165-171, 190-196: spinner.succeed, spinner.warn or spinner.fail
Spinner(phase, name, r) ==
    [phase |-> phase, unit |-> name, result |-> r.result, message |-> r.message,
     how |-> IF r.result = "True" THEN "succeed"
             ELSE IF r.result = "None" THEN "warn" ELSE "fail"]

\* Lines 177-183: diff_all_table_data up to its loop
DiffAllTableData ==
    /\ pc = "diff_all_table_data"
    /\ failures' = 0
    /\ units' = sorted(get_table_names(firstdb))
    /\ idx' = 1
    /\ caller' = "diff_all_table_data"
    /\ pc' = "table_loop"
    /\ queries' = queries \o <<Query("first", "get_table_names", None)>>
    /\ UNCHANGED <<dbvars, firstsession, secondsession, arguments, selfvars,
                   unit, tblvars, seqvars, ret, raised, analysed, reported,
                   phase_rc, exit_code>>

\* Lines 184-189, 197-200: the next table is compared, or the phase returns
TableLoop ==
    /\ pc = "table_loop"
    /\ IF idx <= Len(units)
       THEN /\ unit' = units[idx]
            /\ analysed' = Append(analysed, <<"tables", units[idx]>>)
            /\ pc' = "autoload"
            /\ ret' = None
            /\ UNCHANGED phase_rc
       ELSE /\ phase_rc' = [phase_rc EXCEPT !.tables = Some(PhaseResult(failures))]
            /\ pc' = "main_after_tables"
            /\ UNCHANGED <<unit, analysed, ret>>
    /\ UNCHANGED <<dbvars, firstsession, secondsession, arguments, selfvars,
                   caller, tblvars, seqvars, raised, queries, units, idx,
                   failures, reported, exit_code>>

\* Lines 189-196: the result of diff_table_data is reported and counted
TableOutcome ==
    /\ pc = "returned"
    /\ caller = "diff_all_table_data"
    /\ failures' = CountFailure(failures, Val(ret).result)
    /\ idx' = idx + 1
    /\ reported' = Append(reported, Spinner("tables", unit, Val(ret)))
    /\ pc' = "table_loop"
    /\ UNCHANGED <<dbvars, firstsession, secondsession, arguments, selfvars,
                   caller, unit, tblvars, seqvars, ret, raised, queries, units,
                   analysed, phase_rc, exit_code>>

\* Lines 155-158: diff_all_sequences up to its loop
DiffAllSequences ==
    /\ pc = "diff_all_sequences"
    /\ units' = sorted(get_all_sequences(firstdb))
    /\ failures' = 0
    /\ idx' = 1
    /\ caller' = "diff_all_sequences"
    /\ pc' = "sequence_loop"
    /\ queries' = queries \o <<Query("first", "get_all_sequences", None)>>
    /\ UNCHANGED <<dbvars, firstsession, secondsession, arguments, selfvars,
                   unit, tblvars, seqvars, ret, raised, analysed, reported,
                   phase_rc, exit_code>>

\* Lines 159-164, 172-175
SequenceLoop ==
    /\ pc = "sequence_loop"
    /\ IF idx <= Len(units)
       THEN /\ unit' = units[idx]
            /\ analysed' = Append(analysed, <<"sequences", units[idx]>>)
            /\ pc' = "seq_read"
            /\ ret' = None
            /\ UNCHANGED phase_rc
       ELSE /\ phase_rc' = [phase_rc EXCEPT !.sequences = Some(PhaseResult(failures))]
            /\ pc' = "main_after_sequences"
            /\ UNCHANGED <<unit, analysed, ret>>
    /\ UNCHANGED <<dbvars, firstsession, secondsession, arguments, selfvars,
                   caller, tblvars, seqvars, raised, queries, units, idx,
                   failures, reported, exit_code>>

\* Lines 164-171
SequenceOutcome ==
    /\ pc = "returned"
    /\ caller = "diff_all_sequences"
    /\ failures' = CountFailure(failures, Val(ret).result)
    /\ idx' = idx + 1
    /\ reported' = Append(reported, Spinner("sequences", unit, Val(ret)))
    /\ pc' = "sequence_loop"
    /\ UNCHANGED <<dbvars, firstsession, secondsession, arguments, selfvars,
                   caller, unit, tblvars, seqvars, ret, raised, queries, units,
                   analysed, phase_rc, exit_code>>

\* ------------------------------------------------------------------- main
\* str.startswith("postgres://"): a connection string is modelled by its scheme
StartsWithPostgres(connection_string) == connection_string = "postgres://"

\* Lines 22-42: the fields DBDiff.__init__ sets from its arguments;
\* check_columns defaults to None, chunk_size goes through int().
DBDiffInit(size, only, cc) ==
    [chunk_size |-> size, count_only |-> only, check_columns |-> cc]

\* Mutant of AfterTables: the data phase's result does not stop main before
\* the sequence phase.
AfterTables_AlwaysSequences(rc, args) ==
    IF ~args.only_data THEN "diff_all_sequences"
    ELSE IF rc # 0 THEN "exit 1"
    ELSE "exit 0"

\* Lines 42-48: where main goes after the phases that have returned
AfterTables(rc, args) ==
    IF rc # 0 THEN "exit 1"
    ELSE IF ~args.only_data THEN "diff_all_sequences"
    ELSE "exit 0"

AfterSequences(rc) == IF rc # 0 THEN "exit 1" ELSE "exit 0"

Goto(target) ==
    IF target = "exit 1" THEN pc' = "exit" /\ exit_code' = Some(1)
    ELSE IF target = "exit 0" THEN pc' = "exit" /\ exit_code' = Some(0)
    ELSE pc' = target /\ UNCHANGED exit_code

\* Lines 25-42: the scheme check, the construction of the differ, the first phase
Main ==
    /\ pc = "main"
    /\ IF \/ ~StartsWithPostgres(arguments.firstdb)
          \/ ~StartsWithPostgres(arguments.seconddb)
       THEN /\ Goto("exit 1")
            /\ UNCHANGED selfvars
       ELSE /\ LET self == DBDiffInit(arguments.chunk_size, arguments.count_only,
                                      Some(arguments.check_columns))
               IN  /\ chunk_size' = self.chunk_size
                   /\ count_only' = self.count_only
                   /\ check_columns' = self.check_columns
            /\ IF ~arguments.only_sequences
               THEN Goto("diff_all_table_data")
               ELSE IF ~arguments.only_data
               THEN Goto("diff_all_sequences")
               ELSE Goto("exit 0")
    /\ UNCHANGED <<dbvars, firstsession, secondsession, arguments, caller, unit,
                   tblvars, seqvars, ret, raised, queries, units, idx, failures,
                   analysed, reported, phase_rc>>

\* Lines 43-47: after diff_all_table_data has returned
MainAfterTables ==
    /\ pc = "main_after_tables"
    /\ Goto(AfterTables(Val(phase_rc.tables), arguments))
    /\ UNCHANGED <<dbvars, firstsession, secondsession, arguments, selfvars,
                   caller, unit, tblvars, seqvars, ret, raised, queries, units,
                   idx, failures, analysed, reported, phase_rc>>

\* Lines 46-48: after diff_all_sequences has returned
MainAfterSequences ==
    /\ pc = "main_after_sequences"
    /\ Goto(AfterSequences(Val(phase_rc.sequences)))
    /\ UNCHANGED <<dbvars, firstsession, secondsession, arguments, selfvars,
                   caller, unit, tblvars, seqvars, ret, raised, queries, units,
                   idx, failures, analysed, reported, phase_rc>>

\* ------------------------------------------------------------ initial states
\* Sequence values are drawn from 1..MaxSeq.
MaxSeq == 3

\* --chunk-size [default: 10000]
DefaultChunkSize == 10000

Database(tables, sequences) == [tables |-> tables, sequences |-> sequences]

Table(keycols, rows) == [pk |-> keycols, columns |-> Columns, rows |-> rows]

NoTables == <<>>
NoSequences == <<>>

\* The lists a caller passes as check_columns: the empty list, the non-key
\* column, the key column alone (c1 is then unlisted), a list naming a column
\* the table does not have.
CheckColumnLists == {<<>>, <<"c1">>, <<"id">>, <<"c1", "zz">>}

\* One table t in both databases, with the same definition and any content;
\* or t absent from one of them or from both.
ApiTableDatabases ==
    {<<Database("t" :> Table(k, r1), NoSequences),
       Database("t" :> Table(k, r2), NoSequences)>> :
         k \in {<<>>, <<"id">>}, r1 \in RowSets, r2 \in RowSets}
    \cup
    {<<Database(t1, NoSequences), Database(t2, NoSequences)>> :
         t1 \in {NoTables, "t" :> Table(<<"id">>, {})},
         t2 \in {NoTables, "t" :> Table(<<"id">>, {})}}

\* One sequence s, with any value in each database or absent from it
ApiSequenceDatabases ==
    {<<Database(NoTables, s1), Database(NoTables, s2)>> :
         s1 \in {NoSequences} \cup {"s" :> v : v \in 1..MaxSeq},
         s2 \in {NoSequences} \cup {"s" :> v : v \in 1..MaxSeq}}

NoArguments ==
    [firstdb |-> "postgres://", seconddb |-> "postgres://", only_data |-> FALSE,
     only_sequences |-> FALSE, count_only |-> FALSE,
     chunk_size |-> DefaultChunkSize, check_columns |-> <<>>]

InitLocals ==
    /\ firstsession = "ok"
    /\ secondsession = "ok"
    /\ pk = ""
    /\ cursor = None
    /\ prev_cursor = None
    /\ firstvalue = None
    /\ secondvalue = None
    /\ ret = None
    /\ raised = None
    /\ queries = <<>>
    /\ units = <<>>
    /\ idx = 0
    /\ failures = 0
    /\ analysed = <<>>
    /\ reported = <<>>
    /\ phase_rc = [tables |-> None, sequences |-> None]
    /\ exit_code = None

\* A differ constructed by a caller of the class, about to compare the table t
\* or the sequence s.
Init ==
    /\ InitLocals
    /\ arguments = NoArguments
    /\ caller = "api"
    /\ \E size \in 1..MaxChunk, only \in BOOLEAN,
          cc \in {None} \cup {Some(l) : l \in CheckColumnLists} :
          LET self == DBDiffInit(size, only, cc)
          IN  /\ chunk_size = self.chunk_size
              /\ count_only = self.count_only
              /\ check_columns = self.check_columns
    /\ \/ /\ \E dbs \in ApiTableDatabases :
                firstdb = dbs[1] /\ seconddb = dbs[2]
          /\ unit = "t"
          /\ pc = "autoload"
       \/ /\ \E dbs \in ApiSequenceDatabases :
                firstdb = dbs[1] /\ seconddb = dbs[2]
          /\ unit = "s"
          /\ pc = "seq_read"

Next ==
    \/ Autoload
    \/ CountCheck
    \/ KeyColumnCheck
    \/ FirstPk
    \/ HashCompare
    \/ NextCursor
    \/ SeqRead
    \/ SeqExcept
    \/ SeqCompare
    \/ QueryError

Spec == Init /\ [][Next]_vars

\* ------------------------------------------------------- the command line
TableNames == {"a", "b"}
SequenceNames == {"r", "s"}

\* What one table name is in the first and in the second database (None:
\* absent): absent from both, from either, empty in both, identical, different
\* in c1, different in the number of rows.
TableFixtures ==
    LET T0 == Some(Table(<<"id">>, {}))
        T1 == Some(Table(<<"id">>, {[id |-> 1, c1 |-> 0]}))
        T2 == Some(Table(<<"id">>, {[id |-> 1, c1 |-> 1]}))
    IN  {<<None, None>>, <<None, T1>>, <<T1, None>>, <<T0, T0>>, <<T1, T1>>,
         <<T1, T2>>, <<T1, T0>>}

\* What one sequence name is in the first and in the second database: absent
\* from both, absent from the second, equal, behind, ahead.
SequenceFixtures ==
    {<<None, None>>, <<Some(1), None>>, <<Some(1), Some(1)>>,
     <<Some(1), Some(2)>>, <<Some(2), Some(1)>>}

\* The catalog of one database: the names present on the given side
Catalog(names, choice, side) ==
    [n \in {m \in names : choice[m][side] # None} |-> Val(choice[n][side])]

MainDatabases ==
    {<<Database(Catalog(TableNames, t, 1), Catalog(SequenceNames, q, 1)),
       Database(Catalog(TableNames, t, 2), Catalog(SequenceNames, q, 2))>> :
         t \in [TableNames -> TableFixtures],
         q \in [SequenceNames -> SequenceFixtures]}

Schemes == {"postgres://", "mysql://"}

\* docopt's arguments: --only-data and --only-sequences exclude each other,
\* --check-columns is a list (empty when the option is not given).
Arguments ==
    {a \in [firstdb : Schemes, seconddb : Schemes, only_data : BOOLEAN,
            only_sequences : BOOLEAN, count_only : BOOLEAN,
            chunk_size : {DefaultChunkSize}, check_columns : {<<>>}] :
         ~(a.only_data /\ a.only_sequences)}

\* The process enters main; no differ is constructed yet.
InitMain ==
    /\ InitLocals
    /\ arguments \in Arguments
    /\ \E dbs \in MainDatabases :
          /\ firstdb = dbs[1]
          /\ seconddb = dbs[2]
          /\ \/ StartsWithPostgres(arguments.firstdb)
                    /\ StartsWithPostgres(arguments.seconddb)
             \/ dbs[1].tables = NoTables /\ dbs[1].sequences = NoSequences
                    /\ dbs[2].tables = NoTables /\ dbs[2].sequences = NoSequences
    /\ caller = "main"
    /\ chunk_size = 0
    /\ count_only = FALSE
    /\ check_columns = None
    /\ unit = ""
    /\ pc = "main"

NextMain ==
    \/ Main
    \/ DiffAllTableData
    \/ TableLoop
    \/ TableOutcome
    \/ MainAfterTables
    \/ DiffAllSequences
    \/ SequenceLoop
    \/ SequenceOutcome
    \/ MainAfterSequences
    \/ Next

SpecMain == InitMain /\ [][NextMain]_vars

\* ================================================================== claims
\* What the claims speak of, stated from the databases' content and not from
\* the operators the comparison uses.

\* The table of the running comparison is in both databases.
InBoth == TableExists(firstdb, unit) /\ TableExists(seconddb, unit)

FirstRows == firstdb.tables[unit].rows
SecondRows == seconddb.tables[unit].rows
Ids(rows) == {r.id : r \in rows}

\* The first database's table has a single-column primary key.
HasPk == Len(firstdb.tables[unit].pk) = 1

\* check_columns is a list and every name in it is a column of the table.
ListOfColumns ==
    /\ check_columns # None
    /\ \A i \in 1..Len(Val(check_columns)) :
          \E j \in 1..Len(Columns) : Columns[j] = Val(check_columns)[i]

\* The columns whose content is compared: all of them when the list is empty,
\* else the primary key and the listed ones.
Checked ==
    IF Val(check_columns) = <<>> THEN {Columns[j] : j \in 1..Len(Columns)}
    ELSE {"id"} \cup {Val(check_columns)[i] : i \in 1..Len(Val(check_columns))}

\* Two rows agree on the checked columns.
Agree(r, s) == \A col \in Checked : r[col] = s[col]

\* The ids both tables hold whose rows differ in a checked column
DifferingIds ==
    {k \in Ids(FirstRows) \cap Ids(SecondRows) :
        ~Agree(RowOf(FirstRows, k), RowOf(SecondRows, k))}

\* The ids of the first k rows with id >= c
FirstK(rows, c, k) ==
    {i \in Ids(rows) : i >= c /\ Cardinality({j \in Ids(rows) : j >= c /\ j < i}) < k}

\* The chunks of k rows from c of the two tables hold the same checked content.
SameChunk(c, k) ==
    /\ FirstK(FirstRows, c, k) = FirstK(SecondRows, c, k)
    /\ \A i \in FirstK(FirstRows, c, k) :
          Agree(RowOf(FirstRows, i), RowOf(SecondRows, i))

\* The cursors of the digest queries issued so far
HashCursors ==
    {Val(queries[i].cursor) : i \in {j \in 1..Len(queries) : queries[j].kind = "hash"}}

Match == Result("True", "data is identical.", <<>>)

\* No query was made to fail from outside.
NoQueryFailure == raised # Some("OperationalError")

\* C1 (localized divergence): two non-empty tables with the same ids and a
\* single-column key, exactly one row differing in a checked column,
\* count_only off, any chunk size: the comparison returns (False, 'data is
\* different - start_cursor c'), the differing row is among the first
\* chunk_size rows from c, and the chunks at the earlier cursors are equal.
C1_Case ==
    /\ InBoth /\ HasPk /\ ~count_only /\ ListOfColumns
    /\ FirstRows # {}
    /\ Ids(FirstRows) = Ids(SecondRows)
    /\ Cardinality(DifferingIds) = 1

C1_LocalizedDivergence ==
    (pc = "returned" /\ C1_Case) =>
        /\ Val(ret).result = "False"
        /\ Val(ret).message = "data is different - start_cursor"
        /\ DifferingIds \subseteq FirstK(FirstRows, Val(ret).args[1], chunk_size)
        /\ \A c \in HashCursors \ {Val(ret).args[1]} : SameChunk(c, chunk_size)

\* C1 holds of every chunk size but 1.
C1_FromChunkSizeTwo == chunk_size >= 2 => C1_LocalizedDivergence

\* C2 (count-only blind spot): two tables with a primary key, equal non-zero
\* row counts and different checked content: (True, ...) with count_only,
\* (False, ...) without, whatever the chunk size.
C2_Case ==
    /\ InBoth /\ HasPk /\ ListOfColumns
    /\ Cardinality(FirstRows) = Cardinality(SecondRows)
    /\ FirstRows # {}
    /\ \/ Ids(FirstRows) # Ids(SecondRows)
       \/ DifferingIds # {}

C2_CountOnlyBlindSpot ==
    (pc = "returned" /\ C2_Case) =>
        Val(ret).result = (IF count_only THEN "True" ELSE "False")

\* C2 holds of every chunk size but 1.
C2_FromChunkSizeTwo == chunk_size >= 2 => C2_CountOnlyBlindSpot

\* C3 (identical tables): a non-empty table with a single-column key and the
\* same rows in both databases, count_only off, check_columns a list of
\* columns of the table: the comparison returns (True, 'data is identical.')
\* and nothing else, and raises nothing of its own, whatever the chunk size
\* and the number of rows.
C3_Case ==
    /\ InBoth /\ HasPk /\ ~count_only /\ ListOfColumns
    /\ FirstRows # {}
    /\ FirstRows = SecondRows

C4_Case == InBoth /\ FirstRows = {} /\ SecondRows = {}

C4_EmptyTable ==
    C4_Case =>
        /\ ret \in {None, Some(Result("None", "tables are empty", <<>>))}
        /\ raised \in {None, Some("OperationalError")}
        /\ (pc \in {"returned", "raised"} /\ NoQueryFailure) => ret # None

\* An empty table without a primary key was compared with count_only on and
\* check_columns left at None.
C4_Witness ==
    /\ C4_Case
    /\ pc = "returned"
    /\ Val(ret).result = "None"
    /\ count_only
    /\ check_columns = None
    /\ ~HasPk

\* C5 (sequence tri-state): for a sequence of the first database with value a,
\* diff_sequence returns True iff the second holds it with b = a, None iff
\* a < b, False iff a > b, and False when the second does not hold it.
C5_Called == unit \in DOMAIN firstdb.sequences /\ pc = "returned"

C5_SequenceTriState ==
    C5_Called =>
        LET a == firstdb.sequences[unit]
            r == Val(ret).result
        IN  IF ~SequenceExists(seconddb, unit)
            THEN /\ r = "False"
                 /\ Val(ret).message = "sequence doesnt exist in second database."
            ELSE LET b == seconddb.sequences[unit]
                 IN  /\ r \in {"True", "None", "False"}
                     /\ (r = "True" <=> a = b)
                     /\ (r = "None" <=> a < b)
                     /\ (r = "False" <=> a > b)

\* A sequence behind the second database's was compared: inconclusive.
C5_Witness ==
    /\ C5_Called
    /\ SequenceExists(seconddb, unit)
    /\ firstdb.sequences[unit] < seconddb.sequences[unit]
    /\ Val(ret).result = "None"

\* C6 (no primary key), as claimed: a table that is in both databases and has
\* no primary key in the first: the comparison returns None whatever the
\* content and count_only are.
C6_Case == InBoth /\ ~HasPk

C6_NoPrimaryKeyAlways ==
    (pc = "returned" /\ C6_Case) => Val(ret).result = "None"

\* C6, amended: the counts are compared first and count_only is honoured
\* before the primary key is looked at. Without a primary key the comparison
\* returns (False, 'counts are different') when the row counts differ, (None,
\* 'tables are empty') when both are zero, (True, 'Counts are the same') when
\* they are equal, not zero and count_only is on, and in every other case
\* (None, 'no primary key(s) on this table'), equal content or not; it issues
\* no first-key, digest or cursor query.
C6_NoPrimaryKey ==
    C6_Case =>
        /\ raised \in {None, Some("OperationalError")}
        /\ \A i \in 1..Len(queries) :
              queries[i].kind \notin {"first_pk", "hash", "cursor"}
        /\ pc = "returned" =>
              LET a == Cardinality(FirstRows)
                  b == Cardinality(SecondRows)
              IN  Val(ret) =
                    IF a # b THEN Result("False", "counts are different", <<a, b>>)
                    ELSE IF a = 0 THEN Result("None", "tables are empty", <<>>)
                    ELSE IF count_only THEN Result("True", "Counts are the same", <<>>)
                    ELSE Result("None", "no primary key(s) on this table", <<>>)

\* Two tables without a primary key, of equal size and different content, were
\* compared with count_only off: inconclusive for want of a primary key.
C6_Witness ==
    /\ C6_Case
    /\ pc = "returned"
    /\ ~count_only
    /\ Cardinality(FirstRows) = Cardinality(SecondRows)
    /\ FirstRows # SecondRows
    /\ Val(ret).message = "no primary key(s) on this table"

\* C7 (missing checked column), as claimed: check_columns names a column the
\* first database's table does not have: the comparison returns (None,
\* 'missing checked columns') and has issued no first-key, digest or cursor
\* query.
NamesMissingColumn ==
    /\ check_columns # None
    /\ \E i \in 1..Len(Val(check_columns)) :
          \A j \in 1..Len(Columns) : Columns[j] # Val(check_columns)[i]

C7_Case == TableExists(firstdb, unit) /\ NamesMissingColumn

C7_MissingColumnAlways ==
    (pc = "returned" /\ C7_Case) =>
        /\ Val(ret) = Result("None", "missing checked columns", <<>>)
        /\ \A i \in 1..Len(queries) :
              queries[i].kind \notin {"first_pk", "hash", "cursor"}

\* C7, amended: the checked columns are validated after the existence, count,
\* count-only and primary-key steps. With a missing checked column the
\* comparison never issues a first-key, digest or cursor query, and it returns
\* (None, 'missing checked columns') exactly when the table is in both
\* databases with equal non-zero row counts, count_only is off and the table
\* has a primary key; otherwise it returns the result of the earlier step.
C7_Reached ==
    /\ InBoth
    /\ Cardinality(FirstRows) = Cardinality(SecondRows)
    /\ FirstRows # {}
    /\ ~count_only
    /\ HasPk

C7_MissingColumn ==
    C7_Case =>
        /\ raised \in {None, Some("OperationalError")}
        /\ \A i \in 1..Len(queries) :
              queries[i].kind \notin {"first_pk", "hash", "cursor"}
        /\ pc = "returned" =>
              (Val(ret) = Result("None", "missing checked columns", <<>>)
                  <=> C7_Reached)

\* A table with rows and a primary key was compared with a check_columns list
\* naming a column it does not have: inconclusive, no content query issued.
C7_Witness ==
    /\ C7_Case
    /\ C7_Reached
    /\ pc = "returned"
    /\ Val(ret).message = "missing checked columns"
    /\ FirstRows # SecondRows

\* C8 (phase result and exit code): a phase that has returned has reported
\* every table (sequence) of the first database and returned 0 iff none of them
\* resolved to False, a None never counting; main, when it returns, returns 1
\* iff a connection string does not start with postgres:// or a unit of a phase
\* it ran resolved to False, and 0 otherwise.
ReportedOf(phase) == SelectSeq(reported, LAMBDA e : e.phase = phase)

Mismatches(phase) ==
    \E i \in 1..Len(reported) :
        reported[i].phase = phase /\ reported[i].result = "False"

BadScheme ==
    arguments.firstdb # "postgres://" \/ arguments.seconddb # "postgres://"

C8_PhaseResultAndExitCode ==
    /\ phase_rc.tables # None =>
          /\ Len(ReportedOf("tables")) = Cardinality(DOMAIN firstdb.tables)
          /\ Val(phase_rc.tables) = (IF Mismatches("tables") THEN 1 ELSE 0)
    /\ phase_rc.sequences # None =>
          /\ Len(ReportedOf("sequences")) = Cardinality(DOMAIN firstdb.sequences)
          /\ Val(phase_rc.sequences) = (IF Mismatches("sequences") THEN 1 ELSE 0)
    /\ exit_code # None =>
          Val(exit_code) =
              (IF BadScheme \/ Mismatches("tables") \/ Mismatches("sequences")
               THEN 1 ELSE 0)

\* Both phases ran, each met an inconclusive unit and no mismatch, and main
\* returned 0.
C8_Witness ==
    /\ exit_code = Some(0)
    /\ phase_rc.tables = Some(0)
    /\ phase_rc.sequences = Some(0)
    /\ \E i, j \in 1..Len(reported) :
          /\ reported[i].phase = "tables" /\ reported[i].result = "None"
          /\ reported[j].phase = "sequences" /\ reported[j].result = "None"

\* C9 (continue-on-error): a phase that was started hands every table
\* (sequence) of the first database to the engine exactly once, in sorted order,
\* and returns its aggregate, whatever the earlier units came to, a failing
\* query included.
Stopped == pc \in {"exit", "raised"}

Started(kind) == \E i \in 1..Len(queries) : queries[i].kind = kind

AnalysedOf(phase) ==
    LET own == SelectSeq(analysed, LAMBDA e : e[1] = phase)
    IN  [i \in 1..Len(own) |-> own[i][2]]

C9_ContinueOnError ==
    Stopped =>
        /\ Started("get_table_names") =>
              /\ AnalysedOf("tables") = sorted(DOMAIN firstdb.tables)
              /\ phase_rc.tables # None
        /\ Started("get_all_sequences") =>
              /\ AnalysedOf("sequences") = sorted(DOMAIN firstdb.sequences)
              /\ phase_rc.sequences # None

\* C9 holds of the runs in which no exception escaped a comparison.
C9_WhenNothingRaised == raised = None => C9_ContinueOnError

\* C10 (no error escapes a unit's comparison): a comparison that has ended has
\* returned one of the three results; no exception leaves diff_table_data or
\* diff_sequence.
C10_NoErrorEscapes ==
    /\ raised = None
    /\ pc # "raised"
    /\ ret # None => Val(ret).result \in {"True", "False", "None"}

\* ------------------------------------------------------------------ C11
\* No explicit list of checked columns: the constructor default (None) or the
\* empty list of the command line.
DefaultCheckColumns == check_columns \in {None, Some(<<>>)}

\* The two tables differ in some column of the table (the key included).
DifferInAnyColumn == FirstRows # SecondRows

C11_Case ==
    /\ InBoth
    /\ HasPk
    /\ FirstRows # {}
    /\ ~count_only
    /\ DefaultCheckColumns

\* C11 (default checked columns): with no explicit list of checked columns,
\* the comparison of a non-empty table that has a primary key raises nothing
\* of its own, never answers "missing checked columns", digests every column
\* of the table, and answers False when the tables differ in any column.
C11_DefaultCheckedColumns ==
    C11_Case =>
        /\ raised # Some("TypeError")
        /\ pc = "hash" => HashColumns(pk, Val(check_columns)) = Columns
        /\ pc = "returned" =>
              /\ Val(ret).message # "missing checked columns"
              /\ DifferInAnyColumn => Val(ret).result = "False"

\* C11 holds of the empty list when a chunk holds at least two rows.
C11_EmptyListFromChunkSizeTwo ==
    (check_columns = Some(<<>>) /\ chunk_size >= 2) => C11_DefaultCheckedColumns

\* The constructor default alone: the comparison never gets past line 65.
C11_DefaultNeverCompares ==
    (C11_Case /\ check_columns = None) =>
        /\ ~Started("hash")
        /\ pc = "returned" => Val(ret).result = "False"

\* ------------------------------------------------------------------ C12
OnlyInFirst == DOMAIN firstdb.tables \ DOMAIN seconddb.tables
OnlyInSecond == DOMAIN seconddb.tables \ DOMAIN firstdb.tables

\* The data phase reported table n as missing.
ReportedMissing(n) ==
    \E i \in 1..Len(reported) :
        /\ reported[i].phase = "tables"
        /\ reported[i].unit = n
        /\ reported[i].result = "False"
        /\ reported[i].message = "table is missing"

C12_SecondOnlyUnnoticed ==
    /\ phase_rc.tables = Some(0)
    /\ OnlyInSecond # {}

\* ------------------------------------------------------------------ C13
\* One call of diff_table_data or diff_sequence runs to its end: every step
\* of the call that can be taken is eventually taken.
SpecFair == Init /\ [][Next]_vars /\ WF_vars(Next)

\* The call is over: it returned or an exception left it.
Terminated == pc \in {"returned", "raised"}

\* A step of the chunk loop: the cursor never decreases; the loop goes on to
\* the next chunk only with a greater cursor, returns "data is identical."
\* exactly when the new cursor equals the one before it, and otherwise leaves
\* only through a digest mismatch (or a failing query).
CursorStep ==
    /\ (pc \in {"hash", "next_cursor"} /\ cursor # None /\ cursor' # None) =>
          Val(cursor') >= Val(cursor)
    /\ (pc = "next_cursor" /\ pc' = "hash") =>
          /\ Val(cursor') > Val(cursor)
          /\ prev_cursor' = cursor
    /\ (pc = "next_cursor" /\ pc' = "returned") =>
          /\ cursor' = cursor
          /\ prev_cursor' = cursor'
          /\ ret' = Some(Match)
    /\ (pc = "hash" /\ pc' = "returned") =>
          /\ Val(ret').message = "data is different - start_cursor"
          /\ ~SameChunk(Val(cursor), chunk_size)
    /\ (pc = "hash" /\ pc' # "hash") => pc' \in {"next_cursor", "returned", "raised"}

\* C13 (cursor progress and termination): during one call the successive
\* cursors never decrease, the chunk loop stops exactly when two consecutive
\* cursors are equal or earlier on a digest mismatch, and the call ends, for
\* every table over 1..MaxKey and every chunk size in 1..MaxChunk.
C13_CursorProgress == [][CursorStep]_vars /\ <>Terminated

\* A scan of at least two chunks ended on two equal consecutive cursors.
C13_Witness ==
    /\ pc = "returned"
    /\ ret = Some(Match)
    /\ prev_cursor = cursor
    /\ Cardinality(HashCursors) >= 2
    /\ chunk_size >= 2

\* ------------------------------------------------------------------ C14
\* The ids of the first table's rows that were in a chunk whose digests were
\* compared
ComparedIds ==
    UNION {FirstK(FirstRows, c, chunk_size) : c \in HashCursors}

\* The chunk loop stopped because the next cursor equalled the current one.
StoppedOnStagnation ==
    /\ pc = "returned"
    /\ ret = Some(Match)
    /\ prev_cursor # None
    /\ prev_cursor = cursor

\* C14 (stagnation means end of table): when the chunk loop stops because the
\* next cursor equals the current one, every row of the first database's table
\* was in a chunk whose digests were compared.
C14_StagnationIsEndOfTable ==
    StoppedOnStagnation => ComparedIds = Ids(FirstRows)

\* C14 holds when a chunk holds at least two rows.
C14_FromChunkSizeTwo == chunk_size >= 2 => C14_StagnationIsEndOfTable

\* With one row per chunk the loop stagnates on the first row: it is the only
\* row ever compared.
C14_ChunkSizeOne ==
    (chunk_size = 1 /\ StoppedOnStagnation) =>
        /\ Cardinality(HashCursors) = 1
        /\ ComparedIds = {Val(SQL_QUERY_FIRST_PK(firstdb, unit))}

\* ------------------------------------------------------------------ C15
C15_Case == InBoth /\ Count(firstdb, unit) # Count(seconddb, unit)

\* C15 (count short-circuit): when the table exists in both databases and the
\* row counts differ, the comparison ends at the count step: it returns
\* (False, "counts are different a != b") whatever count_only and
\* check_columns are, it never reaches the primary-key or checked-column step
\* (so the default check_columns raises nothing), and it issues no query other
\* than the reflection and the counts.
C15_CountShortCircuit ==
    C15_Case =>
        /\ pc \in {"autoload", "count", "returned", "raised"}
        /\ \A i \in 1..Len(queries) : queries[i].kind \in {"reflect", "count"}
        /\ raised \in {None, Some("OperationalError")}
        /\ pk = ""
        /\ cursor = None
        /\ pc = "returned" =>
              ret = Some(Result("False", "counts are different",
                                <<Count(firstdb, unit), Count(seconddb, unit)>>))

\* Unequal counts were reported although only counts were asked for and
\* check_columns was left at None.
C15_Witness ==
    /\ C15_Case
    /\ pc = "returned"
    /\ count_only
    /\ check_columns = None
    /\ Val(ret).message = "counts are different"
    /\ Len(queries) = 6

\* ------------------------------------------------------------------ C16
\* The smallest id of a non-empty set of rows
MinId(rows) == CHOOSE m \in Ids(rows) : \A i \in Ids(rows) : m <= i

\* The positions in the query log of the queries of a kind
Positions(kind) == {i \in 1..Len(queries) : queries[i].kind = kind}

\* Equal non-zero counts, content asked for, validation passed
C16_Case ==
    /\ InBoth
    /\ Count(firstdb, unit) = Count(seconddb, unit)
    /\ Count(firstdb, unit) # 0
    /\ ~count_only
    /\ HasPk
    /\ ListOfColumns

\* C16 (first-key alignment): with equal non-zero counts, count_only off and
\* validation passed, the minimum primary key is fetched from the first and
\* then from the second database before any digest query; when the two minima
\* differ the comparison returns (False, "first primary keys are different")
\* and no digest query is ever issued; when they are equal the first chunk's
\* cursor is that minimum.
C16_FirstKeyAlignment ==
    C16_Case =>
        /\ pc \in {"hash", "next_cursor"} =>
              \E i \in Positions("first_pk") :
                  /\ Positions("first_pk") = {i, i + 1}
                  /\ queries[i].db = "first"
                  /\ queries[i + 1].db = "second"
                  /\ \A j \in Positions("hash") \cup Positions("cursor") : j > i + 1
        /\ Positions("hash") # {} => Positions("first_pk") # {}
        /\ MinId(FirstRows) # MinId(SecondRows) =>
              /\ Positions("hash") = {}
              /\ pc \notin {"hash", "next_cursor"}
              /\ pc = "returned" =>
                    ret = Some(Result("False", "first primary keys are different", <<>>))
        /\ MinId(FirstRows) = MinId(SecondRows) =>
              /\ (pc = "hash" /\ prev_cursor = None) =>
                    cursor = Some(MinId(FirstRows))
              /\ \A j \in Positions("hash") :
                    (\A h \in Positions("hash") : j <= h) =>
                        queries[j].cursor = Some(MinId(FirstRows))
              /\ pc = "returned" =>
                    Val(ret).message # "first primary keys are different"

\* Two tables of as many rows whose smallest keys differ and whose largest
\* keys are equal: the comparison ended at the first-key step.
C16_Witness ==
    /\ C16_Case
    /\ MinId(FirstRows) # MinId(SecondRows)
    /\ \E m \in Ids(FirstRows) \cap Ids(SecondRows) :
          \A i \in Ids(FirstRows) \cup Ids(SecondRows) : i <= m
    /\ pc = "returned"
    /\ Val(ret).message = "first primary keys are different"

\* Equal smallest keys: the scan started at that key.
C16_WitnessAligned ==
    /\ C16_Case
    /\ MinId(FirstRows) = MinId(SecondRows)
    /\ MinId(FirstRows) > 1
    /\ pc = "hash"
    /\ prev_cursor = None
    /\ cursor = Some(MinId(FirstRows))

\* ------------------------------------------------------------------ C17
\* The digest and cursor queries issued so far, in order
ChunkLog == SelectSeq(queries, LAMBDA q : q.kind \in {"hash", "cursor"})

\* The largest id of a non-empty set of ids
MaxOf(ids) == CHOOSE m \in ids : \A i \in ids : i <= m

\* C17 (lockstep chunking): the digest and cursor queries come in rounds of
\* three: the digest of the chunk at a cursor from the first database, the
\* digest from the second with the same cursor and the same row limit
\* (chunk_size, so a window holds at most chunk_size rows), and only then,
\* the two chunks having the same content, the cursor query; the next round
\* starts at the last key of the chunk just compared. No round starts before
\* the one before it was compared.
C17_LockstepChunking ==
    /\ \A i \in 1..Len(ChunkLog) :
          LET q == ChunkLog[i]
          IN  /\ q.row_limit = chunk_size
              /\ Len(Window(FirstRows, Val(q.cursor), q.row_limit)) <= chunk_size
              /\ Len(Window(SecondRows, Val(q.cursor), q.row_limit)) <= chunk_size
              /\ i % 3 = 1 =>
                    /\ q.kind = "hash" /\ q.db = "first"
                    /\ i > 1 =>
                          Val(q.cursor) =
                              MaxOf(FirstK(FirstRows, Val(ChunkLog[i - 1].cursor),
                                           chunk_size))
              /\ i % 3 = 2 =>
                    /\ q.kind = "hash" /\ q.db = "second"
                    /\ q.cursor = ChunkLog[i - 1].cursor
                    /\ q.row_limit = ChunkLog[i - 1].row_limit
              /\ i % 3 = 0 =>
                    /\ q.kind = "cursor" /\ q.db = "first"
                    /\ q.cursor = ChunkLog[i - 1].cursor
                    /\ SameChunk(Val(q.cursor), chunk_size)
    /\ pc = "hash" => Len(ChunkLog) % 3 = 0
    /\ pc = "next_cursor" =>
          /\ Len(ChunkLog) % 3 = 2
          /\ SameChunk(Val(cursor), chunk_size)

\* Two rounds were run to the end on tables whose second chunk is shorter
\* than the first.
C17_Witness ==
    /\ pc = "returned"
    /\ ret = Some(Match)
    /\ Len(ChunkLog) = 6
    /\ ChunkLog[4].cursor # ChunkLog[1].cursor
    /\ chunk_size = 3

\* ------------------------------------------------------------------ C18
Missing == Result("False", "sequence doesnt exist in second database.", <<>>)

\* What the comparison of sequence n has to answer, from the databases alone
ExpectedOfSequence(n) ==
    IF ~SequenceExists(seconddb, n) THEN "False"
    ELSE IF firstdb.sequences[n] < seconddb.sequences[n] THEN "None"
    ELSE IF firstdb.sequences[n] > seconddb.sequences[n] THEN "False"
    ELSE "True"

\* C18 (sequence read failure): when the read of a sequence fails because the
\* second database lacks it, diff_sequence returns (False, "sequence doesnt
\* exist in second database.") with both sessions rolled back, so that the
\* next sequence is read on usable sessions: no read ever fails on an aborted
\* transaction and every later sequence gets the answer its values call for.
C18_SequenceReadFailure ==
    /\ (caller = "diff_all_sequences" /\ pc = "returned"
            /\ ~SequenceExists(seconddb, unit)) =>
          /\ ret = Some(Missing)
          /\ firstsession = "ok"
          /\ secondsession = "ok"
    /\ pc \in {"sequence_loop", "seq_read"} =>
          firstsession = "ok" /\ secondsession = "ok"
    /\ raised # Some("InternalError")
    /\ \A i \in 1..Len(reported) :
          reported[i].phase = "sequences" =>
              reported[i].result = ExpectedOfSequence(reported[i].unit)

\* Sequence r is missing from the second database and sequence s, compared
\* after it, was found identical.
C18_Witness ==
    /\ \E i, j \in 1..Len(reported) :
          /\ i < j
          /\ reported[i].phase = "sequences"
          /\ reported[i].unit = "r"
          /\ reported[i].message = "sequence doesnt exist in second database."
          /\ reported[j].phase = "sequences"
          /\ reported[j].unit = "s"
          /\ reported[j].result = "True"
    /\ firstsession = "ok"
    /\ secondsession = "ok"

\* ------------------------------------------------------------------ C19
\* A non-empty list of existing columns is checked, on two non-empty tables
\* that have a primary key, content asked for.
C19_Case ==
    /\ InBoth
    /\ HasPk
    /\ ~count_only
    /\ ListOfColumns
    /\ Val(check_columns) # <<>>
    /\ FirstRows # {}
    /\ SecondRows # {}

\* The two tables hold the same keys and agree on every listed column.
AgreeOnChecked ==
    /\ Ids(FirstRows) = Ids(SecondRows)
    /\ DifferingIds = {}

\* C19 (checked-column restriction): with a non-empty list of checked columns
\* the answer depends on the primary key and the listed columns only: tables
\* that agree on them are found identical even when an unlisted column
\* differs, and tables that differ in the key or in a listed column are
\* answered False.
C19_CheckedColumnsOnly ==
    (C19_Case /\ pc = "returned") =>
        /\ AgreeOnChecked => ret = Some(Match)
        /\ ~AgreeOnChecked => Val(ret).result = "False"

\* C19 holds when a chunk holds at least two rows.
C19_FromChunkSizeTwo == chunk_size >= 2 => C19_CheckedColumnsOnly

\* The half of C19 that holds for every chunk size: a difference confined to
\* unlisted columns is not seen.
C19_UnlistedIgnored ==
    (C19_Case /\ pc = "returned" /\ AgreeOnChecked) => ret = Some(Match)

\* Tables that differ in the unlisted column c1 only were found identical.
C19_UnlistedIgnoredReached ==
    /\ C19_Case
    /\ pc = "returned"
    /\ check_columns = Some(<<"id">>)
    /\ FirstRows # SecondRows
    /\ AgreeOnChecked
    /\ ret = Some(Match)

\* ------------------------------------------------------------------ C20
\* Neither --only-data nor --only-sequences, and both connection strings are
\* accepted.
C20_Case ==
    /\ ~arguments.only_data
    /\ ~arguments.only_sequences
    /\ ~BadScheme

\* The run is inside the sequence phase.
InSequencePhase ==
    \/ pc \in {"diff_all_sequences", "sequence_loop", "main_after_sequences"}
    \/ caller = "diff_all_sequences"

\* C20 (phase sequencing in main): with neither option the data phase runs
\* first and the sequence phase runs exactly when the data phase returned 0:
\* no sequence query precedes the data phase's return, a run that ends after a
\* data phase that returned 0 has run the sequence phase, and after a data
\* phase that returned 1 main returns 1 with no sequence listed, read or
\* compared.
C20_PhaseSequencing ==
    C20_Case =>
        /\ (InSequencePhase \/ Started("get_all_sequences")
                \/ Started("last_value") \/ AnalysedOf("sequences") # <<>>) =>
              phase_rc.tables = Some(0)
        /\ \A i, j \in 1..Len(analysed) :
              (analysed[i][1] = "sequences" /\ analysed[j][1] = "tables") => j < i
        /\ pc = "exit" =>
              /\ Started("get_table_names")
              /\ phase_rc.tables # None
              /\ phase_rc.tables = Some(0) <=> phase_rc.sequences # None
              /\ phase_rc.tables = Some(0) <=> Started("get_all_sequences")
        /\ phase_rc.tables = Some(1) =>
              /\ pc \in {"main_after_tables", "exit"}
              /\ pc = "exit" => exit_code = Some(1)
              /\ ~Started("get_all_sequences")
              /\ ~Started("last_value")
              /\ AnalysedOf("sequences") = <<>>
              /\ ReportedOf("sequences") = <<>>

\* main returned 1 after a data phase with a mismatch; the first database has
\* sequences that differ from the second's and none was compared.
C20_Witness ==
    /\ C20_Case
    /\ pc = "exit"
    /\ exit_code = Some(1)
    /\ phase_rc.tables = Some(1)
    /\ \E n \in DOMAIN firstdb.sequences : ExpectedOfSequence(n) = "False"
    /\ AnalysedOf("sequences") = <<>>

\* main ran both phases in order: tables were compared, then sequences.
C20_BothPhasesReached ==
    /\ C20_Case
    /\ pc = "exit"
    /\ phase_rc.tables = Some(0)
    /\ AnalysedOf("tables") # <<>>
    /\ AnalysedOf("sequences") # <<>>

====
